---- MODULE Spec2Model ----
(***************************************************************************)
(* A model of the y86 emulator: the machine of src/src/vm.rs with its      *)
(* register file (register.rs), its memory (memory.rs), the opcode decoder *)
(* (opcode.rs) and the driver loop of src/src/bin/main.rs.                 *)
(*                                                                         *)
(* A machine word (lib.rs: Word = i64) is kept as its 8 bytes, least       *)
(* significant first, so that every operation has its 64-bit width: a      *)
(* usize value (an address, the instruction pointer) is the same 8 bytes   *)
(* read as an unsigned number, and `as usize` / `as Block` are the         *)
(* identity on the bytes.                                                  *)
(***************************************************************************)
EXTENDS Integers, Sequences, FiniteSets, TLC

\* lib.rs: BLOCK_SIZE = size_of::<Block>() = 8
BLOCK_SIZE == 8

\* memory.rs: MEMORY_SIZE = 1 << 16
MEMORY_SIZE == 65536

Idx == 1..BLOCK_SIZE

\* Words are built at once, as the tuple of their 8 bytes: byte i of an
\* operation is an operator of its own, and the operation the tuple of them.

---------------------------------------------------------------------------
(* Words as bytes                                                          *)

\* The word whose value is the small natural n (n < 2^31).
W(n) == <<n % 256, (n \div 256) % 256, (n \div 65536) % 256, (n \div 16777216) % 256,
          0, 0, 0, 0>>

Zero == W(0)

\* Whether the unsigned value of w is below 2^31, and then that value.
IsSmall(w) == w[4] < 128 /\ \A i \in 5..8 : w[i] = 0

ToNat(w) == w[1] + 256 * w[2] + 65536 * w[3] + 16777216 * w[4]

\* result < 0 on an i64: the top bit.
IsNeg(w) == w[8] >= 128

\* !w
Not(w) ==
  <<255 - w[1], 255 - w[2], 255 - w[3], 255 - w[4],
    255 - w[5], 255 - w[6], 255 - w[7], 255 - w[8]>>

\* Ripple-carry addition from byte i on, with carry c into it and the bytes acc
\* below it done: <<the 8 bytes of a + b + c0, the carry out>>. (A singleton set
\* makes a byte's sum be computed once.)
RECURSIVE AddFrom(_, _, _, _, _)
AddFrom(a, b, c, i, acc) ==
  IF i > BLOCK_SIZE THEN <<acc, c>>
  ELSE CHOOSE y \in {AddFrom(a, b, t \div 256, i + 1, Append(acc, t % 256)) :
                       t \in {a[i] + b[i] + c}} : TRUE

\* a + b + c0 on 64 bits, the carry out dropped.
AddBytes(a, b, c0) == AddFrom(a, b, c0, 1, <<>>)[1]

\* The carry out of a + b + c0: the unsigned sum does not fit in 64 bits.
CarryOut(a, b, c0) == AddFrom(a, b, c0, 1, <<>>)[2] = 1

wrapping_add(a, b) == AddBytes(a, b, 0)

wrapping_sub(a, b) == AddBytes(a, Not(b), 1)

wrapping_neg(a) == AddBytes(Zero, Not(a), 1)

\* Unsigned a >= b: a - b does not borrow.
GeU(a, b) == CarryOut(a, Not(b), 1)

\* Unsigned a > b.
GtU(a, b) == GeU(a, b) /\ a # b

\* i64::overflowing_add: the wrapped sum, and whether the signed sum overflowed.
overflowing_add(a, b) ==
  LET r == wrapping_add(a, b)
  IN  <<r, IsNeg(a) = IsNeg(b) /\ IsNeg(r) # IsNeg(a)>>

\* i64::overflowing_sub: the wrapped difference a - b, and the signed overflow.
overflowing_sub(a, b) ==
  LET r == wrapping_sub(a, b)
  IN  <<r, IsNeg(a) # IsNeg(b) /\ IsNeg(r) # IsNeg(a)>>

\* Bit k (0..7) of the byte x.
Bit(x, k) == (x \div (2 ^ k)) % 2

RECURSIVE ByteAndFrom(_, _, _)
ByteAndFrom(x, y, k) ==
  IF k = 8 THEN 0
  ELSE (2 ^ k) * Bit(x, k) * Bit(y, k) + ByteAndFrom(x, y, k + 1)

RECURSIVE ByteXorFrom(_, _, _)
ByteXorFrom(x, y, k) ==
  IF k = 8 THEN 0
  ELSE (2 ^ k) * ((Bit(x, k) + Bit(y, k)) % 2) + ByteXorFrom(x, y, k + 1)

\* a & b
BitAnd(a, b) ==
  <<ByteAndFrom(a[1], b[1], 0), ByteAndFrom(a[2], b[2], 0), ByteAndFrom(a[3], b[3], 0),
    ByteAndFrom(a[4], b[4], 0), ByteAndFrom(a[5], b[5], 0), ByteAndFrom(a[6], b[6], 0),
    ByteAndFrom(a[7], b[7], 0), ByteAndFrom(a[8], b[8], 0)>>

\* a ^ b
BitXor(a, b) ==
  <<ByteXorFrom(a[1], b[1], 0), ByteXorFrom(a[2], b[2], 0), ByteXorFrom(a[3], b[3], 0),
    ByteXorFrom(a[4], b[4], 0), ByteXorFrom(a[5], b[5], 0), ByteXorFrom(a[6], b[6], 0),
    ByteXorFrom(a[7], b[7], 0), ByteXorFrom(a[8], b[8], 0)>>

\* The unsigned magnitude of the signed word a (2^63 for i64::MIN).
Magnitude(a) == IF IsNeg(a) THEN wrapping_neg(a) ELSE a

\* Column k (0..15) of the schoolbook product of the bytes of a and b.
RECURSIVE ColSumFrom(_, _, _, _)
ColSumFrom(a, b, k, i) ==
  IF i = BLOCK_SIZE THEN 0
  ELSE (IF k - i >= 0 /\ k - i < BLOCK_SIZE THEN a[i + 1] * b[k - i + 1] ELSE 0)
       + ColSumFrom(a, b, k, i + 1)

RECURSIVE MulCarry(_, _, _)
MulCarry(a, b, k) ==
  IF k = 0 THEN 0
  ELSE (ColSumFrom(a, b, k - 1, 0) + MulCarry(a, b, k - 1)) \div 256

\* Byte k (0..15) of the 128-bit unsigned product a * b.
MulByte(a, b, k) == (ColSumFrom(a, b, k, 0) + MulCarry(a, b, k)) % 256

MulLow(a, b) ==
  <<MulByte(a, b, 0), MulByte(a, b, 1), MulByte(a, b, 2), MulByte(a, b, 3),
    MulByte(a, b, 4), MulByte(a, b, 5), MulByte(a, b, 6), MulByte(a, b, 7)>>

MulHigh(a, b) ==
  <<MulByte(a, b, 8), MulByte(a, b, 9), MulByte(a, b, 10), MulByte(a, b, 11),
    MulByte(a, b, 12), MulByte(a, b, 13), MulByte(a, b, 14), MulByte(a, b, 15)>>

\* i64::overflowing_mul: the low 64 bits of the product, and whether the signed
\* product does not fit in an i64.
overflowing_mul(a, b) ==
  LET lo == MulLow(Magnitude(a), Magnitude(b))
      hi == MulHigh(Magnitude(a), Magnitude(b))
      neg == IsNeg(a) # IsNeg(b)
      fits == /\ hi = Zero
              /\ \/ ~IsNeg(lo)
                 \/ neg /\ lo = wrapping_neg(lo)
  IN  <<MulLow(a, b), ~fits>>

\* Bit k (0..63) of the word n.
WordBit(n, k) == Bit(n[(k \div 8) + 1], k % 8)

\* The word q with its (clear) bit k set.
SetBit(q, k) == [q EXCEPT ![(k \div 8) + 1] = @ + 2 ^ (k % 8)]

\* One step of unsigned shift-and-subtract division: bit k of n is brought down
\* into the remainder of p, and d is subtracted when it fits.
DivStep(n, d, k, p) ==
  LET r2 == AddBytes(p.r, p.r, WordBit(n, k))
  IN  IF GeU(r2, d)
      THEN [q |-> SetBit(p.q, k), r |-> wrapping_sub(r2, d)]
      ELSE [q |-> p.q, r |-> r2]

\* The division steps for bits k down to lo, from the quotient and remainder p.
\* (A singleton set makes a step's value be computed once, here and below.)
RECURSIVE DivBits(_, _, _, _, _)
DivBits(n, d, k, lo, p) ==
  IF k < lo THEN p
  ELSE CHOOSE y \in {DivBits(n, d, k - 1, lo, s) : s \in {DivStep(n, d, k, p)}} : TRUE

\* Unsigned division of n by d (d # 0) with the bytes 8 down to j done: the
\* quotient and the remainder so far.
RECURSIVE DivFrom(_, _, _)
DivFrom(n, d, j) ==
  IF j > BLOCK_SIZE THEN [q |-> Zero, r |-> Zero]
  ELSE CHOOSE y \in {DivBits(n, d, 8 * j - 1, 8 * j - 8, p) :
                       p \in {DivFrom(n, d, j + 1)}} : TRUE

\* The unsigned quotient and remainder of n by d (d # 0).
DivMod(n, d) == CHOOSE y \in {DivFrom(m, e, 1) : m \in {n}, e \in {d}} : TRUE

MIN == <<0, 0, 0, 0, 0, 0, 0, 128>>

MAX == <<255, 255, 255, 255, 255, 255, 255, 127>>

MinusOne == <<255, 255, 255, 255, 255, 255, 255, 255>>

\* i64 `/` and `%` overflow (and panic, in every build profile) on MIN / -1.
DivOverflows(a, b) == a = MIN /\ b = MinusOne

\* a / b on i64, b # 0 and no overflow: the quotient truncated toward zero.
SignedDiv(a, b) ==
  LET q == DivMod(Magnitude(a), Magnitude(b)).q
  IN  IF IsNeg(a) # IsNeg(b) THEN wrapping_neg(q) ELSE q

\* a % b on i64, b # 0 and no overflow: the remainder has the dividend's sign.
SignedRem(a, b) ==
  LET r == DivMod(Magnitude(a), Magnitude(b)).r
  IN  IF IsNeg(a) THEN wrapping_neg(r) ELSE r

---------------------------------------------------------------------------
(* Errors (vm.rs Error, opcode.rs Error, memory.rs Error, register.rs Error) *)

\* A return value of kind k carrying arg (a word; Zero when the kind carries none).
Res(k, arg) == [kind |-> k, arg |-> arg]

Ok == Res("Ok", Zero)

MachineHalted == Res("MachineHalted", Zero)

EndOfInstructions(ip_) == Res("EndOfInstructions", ip_)

DivisionByZero == Res("DivisionByZero", Zero)

InvalidOpcode(byte) == Res("InvalidOpcode", W(byte))

InvalidRegister(byte) == Res("InvalidRegister", W(byte))

InvalidAddress(addr) == Res("InvalidAddress", addr)

UnalignedAccess(addr) == Res("UnalignedAccess", addr)

\* Not a return value: the thread panicked (an arithmetic overflow with
\* overflow checks on, or a division that overflows), and the machine is gone.
Panic == Res("Panic", Zero)

\* Not a return value: an access outside the buffer (undefined behaviour) ended
\* the process.
Crash == Res("Crash", Zero)

ErrorKinds ==
  {"MachineHalted", "EndOfInstructions", "DivisionByZero", "InvalidOpcode",
   "InvalidRegister", "InvalidAddress", "UnalignedAccess"}

---------------------------------------------------------------------------
(* opcode.rs                                                               *)

\* OpFun::try_from
OpFun_try_from(byte) ==
  CASE byte = 0 -> [ok |-> TRUE, fun |-> "Add"]
    [] byte = 1 -> [ok |-> TRUE, fun |-> "Sub"]
    [] byte = 2 -> [ok |-> TRUE, fun |-> "And"]
    [] byte = 3 -> [ok |-> TRUE, fun |-> "Xor"]
    [] byte = 4 -> [ok |-> TRUE, fun |-> "Mul"]
    [] byte = 5 -> [ok |-> TRUE, fun |-> "Div"]
    [] byte = 6 -> [ok |-> TRUE, fun |-> "Mod"]
    [] OTHER -> [ok |-> FALSE, err |-> InvalidOpcode(byte)]

\* JCmovFun::try_from
JCmovFun_try_from(byte) ==
  CASE byte = 1 -> [ok |-> TRUE, fun |-> "LessEqual"]
    [] byte = 2 -> [ok |-> TRUE, fun |-> "Less"]
    [] byte = 3 -> [ok |-> TRUE, fun |-> "Equal"]
    [] byte = 4 -> [ok |-> TRUE, fun |-> "NotEqual"]
    [] byte = 5 -> [ok |-> TRUE, fun |-> "GreaterEqual"]
    [] byte = 6 -> [ok |-> TRUE, fun |-> "Greater"]
    [] OTHER -> [ok |-> FALSE, err |-> InvalidOpcode(byte)]

\* An opcode variant op, with fun the sub-code of the variants that carry one.
Op(op, fun) == [ok |-> TRUE, op |-> op, fun |-> fun]

\* A variant that carries a sub-code, or the sub-code's decoding error.
OpWith(op, f) == IF f.ok THEN Op(op, f.fun) ELSE f

\* The decoder that takes 0x70 for a jump, as it takes 0x20 for a move.
Opcode_try_from_plain_jump(byte) ==
  LET high == byte \div 16
      low == byte % 16
  IN  CASE high = 0 -> Op("Halt", "")
        [] high = 1 -> Op("Nop", "")
        [] high = 2 -> IF low = 0 THEN Op("Rrmovq", "")
                       ELSE OpWith("Cmovxx", JCmovFun_try_from(low))
        [] high = 3 -> Op("Irmovq", "")
        [] high = 4 -> Op("Rmmovq", "")
        [] high = 5 -> Op("Mrmovq", "")
        [] high = 6 -> OpWith("Opq", OpFun_try_from(low))
        [] high = 7 -> IF low = 0 THEN Op("Jxx", "")
                       ELSE OpWith("Jxx", JCmovFun_try_from(low))
        [] high = 8 -> Op("Call", "")
        [] high = 9 -> Op("Ret", "")
        [] high = 10 -> Op("Pushq", "")
        [] high = 11 -> Op("Popq", "")
        [] OTHER -> [ok |-> FALSE, err |-> InvalidOpcode(byte)]

\* Opcode::try_from
Opcode_try_from(byte) ==
  LET high == byte \div 16
      low == byte % 16
  IN  CASE high = 0 -> Op("Halt", "")
        [] high = 1 -> Op("Nop", "")
        [] high = 2 -> IF low = 0 THEN Op("Rrmovq", "")
                       ELSE OpWith("Cmovxx", JCmovFun_try_from(low))
        [] high = 3 -> Op("Irmovq", "")
        [] high = 4 -> Op("Rmmovq", "")
        [] high = 5 -> Op("Mrmovq", "")
        [] high = 6 -> OpWith("Opq", OpFun_try_from(low))
        [] high = 7 -> OpWith("Jxx", JCmovFun_try_from(low))
        [] high = 8 -> Op("Call", "")
        [] high = 9 -> Op("Ret", "")
        [] high = 10 -> Op("Pushq", "")
        [] high = 11 -> Op("Popq", "")
        [] OTHER -> [ok |-> FALSE, err |-> InvalidOpcode(byte)]

---------------------------------------------------------------------------
(* register.rs                                                             *)

Rax == 0
Rsp == 4
Rbp == 5
Rsi == 6
Rdi == 7
R14 == 14

\* Register::try_from: the register's index.
Register_try_from(byte) ==
  IF byte <= R14 THEN [ok |-> TRUE, reg |-> byte]
  ELSE [ok |-> FALSE, err |-> InvalidRegister(byte)]

\* Registers with the stack pointer at the end of the memory, not 8 below it.
Registers_new_at_end ==
  [r \in Rax..R14 |-> IF r = Rsp THEN W(MEMORY_SIZE) ELSE Zero]

\* Registers::new
Registers_new ==
  [r \in Rax..R14 |-> IF r = Rsp THEN W(MEMORY_SIZE - 8) ELSE Zero]

\* Flags::new
Flags_new == [zf |-> FALSE, sf |-> FALSE, of |-> FALSE]

\* RegisterFile::default
RegisterFile_default == [registers |-> Registers_new, flags |-> Flags_new]

\* The predicates read off the sign flag alone, the overflow flag ignored.
eval_condition_sign_only(flags, cond) ==
  CASE cond = "LessEqual" -> flags.sf \/ flags.zf
    [] cond = "Less" -> flags.sf
    [] cond = "Equal" -> flags.zf
    [] cond = "NotEqual" -> ~flags.zf
    [] cond = "GreaterEqual" -> ~flags.sf
    [] cond = "Greater" -> ~flags.sf /\ ~flags.zf

\* Flags::eval_condition (through RegisterFile::eval_condition)
eval_condition(flags, cond) ==
  CASE cond = "LessEqual" -> (flags.sf # flags.of) \/ flags.zf
    [] cond = "Less" -> flags.sf # flags.of
    [] cond = "Equal" -> flags.zf
    [] cond = "NotEqual" -> ~flags.zf
    [] cond = "GreaterEqual" -> ~(flags.sf # flags.of)
    [] cond = "Greater" -> ~(flags.sf # flags.of) /\ ~flags.zf

---------------------------------------------------------------------------
(* memory.rs: the buffer of MEMORY_SIZE bytes is kept as the function from  *)
(* the offsets of its non-zero bytes to those bytes.                       *)

\* MainMemory::default: vec![0; MEMORY_SIZE]
MainMemory_default == <<>>

\* bytes[i]
ByteAt(bytes, i) == IF i \in DOMAIN bytes THEN bytes[i] ELSE 0

\* The store with the most significant byte first.
StoreBlock_big_endian(bytes, base, value) ==
  LET span == base..(base + BLOCK_SIZE - 1)
      at(i) == IF i \in span THEN value[BLOCK_SIZE - (i - base)] ELSE bytes[i]
      keep == {i \in DOMAIN bytes \cup span : at(i) # 0}
  IN  [i \in keep |-> at(i)]

\* The buffer with the 8 bytes from offset base replaced by those of value.
StoreBlock(bytes, base, value) ==
  LET span == base..(base + BLOCK_SIZE - 1)
      at(i) == IF i \in span THEN value[i - base + 1] ELSE bytes[i]
      keep == {i \in DOMAIN bytes \cup span : at(i) # 0}
  IN  [i \in keep |-> at(i)]

\* The block at offset base (the target's byte order is little-endian).
LoadBlock(bytes, base) ==
  <<ByteAt(bytes, base), ByteAt(bytes, base + 1), ByteAt(bytes, base + 2),
    ByteAt(bytes, base + 3), ByteAt(bytes, base + 4), ByteAt(bytes, base + 5),
    ByteAt(bytes, base + 6), ByteAt(bytes, base + 7)>>

\* addr + BLOCK_SIZE overflows usize.
SpanOverflows(addr) == CarryOut(addr, W(BLOCK_SIZE), 0)

\* The checks with the bounds checked before the alignment.
Access_bounds_first(addr, checks) ==
  IF SpanOverflows(addr) /\ checks THEN "Panic"
  ELSE IF GtU(wrapping_add(addr, W(BLOCK_SIZE)), W(MEMORY_SIZE)) THEN "InvalidAddress"
  ELSE IF addr[1] % BLOCK_SIZE # 0 THEN "UnalignedAccess"
  ELSE "Ok"

\* The checks of read and write, in their order: "Ok" when the access is made,
\* or the way the call ends before it. With overflow checks the overflowing
\* addr + BLOCK_SIZE panics; without them the sum wraps.
Access(addr, checks) ==
  IF addr[1] % BLOCK_SIZE # 0 THEN "UnalignedAccess"
  ELSE IF SpanOverflows(addr) /\ checks THEN "Panic"
  ELSE IF GtU(wrapping_add(addr, W(BLOCK_SIZE)), W(MEMORY_SIZE)) THEN "InvalidAddress"
  ELSE "Ok"

\* Whether the 8 bytes at addr lie in the buffer. An access that passes the
\* checks and does not (the sum wrapped) goes through the raw pointer to bytes
\* outside the allocation: undefined behaviour, with env.ub the outcome.
InBuffer(addr) == ~SpanOverflows(addr) /\ ~GtU(wrapping_add(addr, W(BLOCK_SIZE)), W(MEMORY_SIZE))

\* MainMemory::read
read(bytes, addr, env) ==
  LET a == Access(addr, env.checks)
  IN  CASE a = "UnalignedAccess" -> [res |-> UnalignedAccess(addr), val |-> Zero]
        [] a = "InvalidAddress" -> [res |-> InvalidAddress(addr), val |-> Zero]
        [] a = "Panic" -> [res |-> Panic, val |-> Zero]
        [] OTHER ->
             IF InBuffer(addr) THEN [res |-> Ok, val |-> LoadBlock(bytes, ToNat(addr))]
             ELSE IF env.ub.crash THEN [res |-> Crash, val |-> Zero]
             ELSE [res |-> Ok, val |-> env.ub.val]

\* MainMemory::write
write(bytes, addr, value, env) ==
  LET a == Access(addr, env.checks)
  IN  CASE a = "UnalignedAccess" -> [res |-> UnalignedAccess(addr), bytes |-> bytes]
        [] a = "InvalidAddress" -> [res |-> InvalidAddress(addr), bytes |-> bytes]
        [] a = "Panic" -> [res |-> Panic, bytes |-> bytes]
        [] OTHER ->
             IF InBuffer(addr)
             THEN [res |-> Ok, bytes |-> StoreBlock(bytes, ToNat(addr), value)]
             ELSE IF env.ub.crash THEN [res |-> Crash, bytes |-> bytes]
             ELSE [res |-> Ok, bytes |-> bytes]

---------------------------------------------------------------------------
(* vm.rs: a machine is the record [ip, memory, reg_file, state]; a handler  *)
(* takes the machine, the instruction stream and env (checks: whether the   *)
(* build checks arithmetic overflow; ub: the outcome of an access outside   *)
(* the buffer) and gives the machine it leaves and what step returns.       *)

\* Vm::new
Vm_new ==
  [ip |-> Zero, memory |-> MainMemory_default, reg_file |-> RegisterFile_default,
   state |-> "Active"]

Out(v, res) == [vm |-> v, res |-> res]

\* reg_file[reg]
Reg(v, reg) == v.reg_file.registers[reg]

\* reg_file[reg] = value
SetReg(v, reg, value) == [v EXCEPT !.reg_file.registers[reg] = value]

\* Vm::read_block
read_block(v, address, env) == read(v.memory, address, env)

\* Vm::write_block
write_block(v, address, value, env) ==
  LET w == write(v.memory, address, value, env)
  IN  [res |-> w.res, vm |-> [v EXCEPT !.memory = w.bytes]]

\* eat with the ip advanced whether or not there is a byte.
eat_advances_always(v, region) ==
  IF IsSmall(v.ip) /\ ToNat(v.ip) < Len(region)
  THEN [ok |-> TRUE, vm |-> [v EXCEPT !.ip = wrapping_add(v.ip, W(1))],
        val |-> region[ToNat(v.ip) + 1]]
  ELSE [ok |-> FALSE, vm |-> [v EXCEPT !.ip = wrapping_add(v.ip, W(1))],
        err |-> EndOfInstructions(v.ip)]

\* Task::eat: region.instructions().get(ip), the ip advanced when there is a byte.
eat(v, region) ==
  IF IsSmall(v.ip) /\ ToNat(v.ip) < Len(region)
  THEN [ok |-> TRUE, vm |-> [v EXCEPT !.ip = wrapping_add(v.ip, W(1))],
        val |-> region[ToNat(v.ip) + 1]]
  ELSE [ok |-> FALSE, vm |-> v, err |-> EndOfInstructions(v.ip)]

\* The loop of eat_immediate with n bytes left to eat and acc eaten.
RECURSIVE eat_bytes(_, _, _, _)
eat_bytes(v, region, n, acc) ==
  IF n = 0 THEN [ok |-> TRUE, vm |-> v, val |-> acc]
  ELSE CHOOSE y \in {IF e.ok THEN eat_bytes(e.vm, region, n - 1, Append(acc, e.val))
                     ELSE e : e \in {eat(v, region)}} : TRUE

\* Block::from_le_bytes: byte i of the array is byte i of the word.
from_le_bytes(bytes) ==
  <<bytes[1], bytes[2], bytes[3], bytes[4], bytes[5], bytes[6], bytes[7], bytes[8]>>

\* Task::eat_immediate
eat_immediate(v, region) ==
  CHOOSE y \in {IF b.ok THEN [ok |-> TRUE, vm |-> b.vm, val |-> from_le_bytes(b.val)]
                ELSE b : b \in {eat_bytes(v, region, BLOCK_SIZE, <<>>)}} : TRUE

\* An i64 `+` or `-` given as its overflowing result <<value, overflowed>>:
\* it panics when the build checks overflow, and wraps otherwise.
Panics(r, env) == r[2] /\ env.checks

halt(v, region, env) == Out([v EXCEPT !.state = "Halted"], Ok)

nop(v, region, env) == Out(v, Ok)

rrmovq(v, region, env) ==
  LET b == eat(v, region)
      ra == Register_try_from(b.val \div 16)
      rb == Register_try_from(b.val % 16)
  IN  IF ~b.ok THEN Out(b.vm, b.err)
      ELSE IF ~ra.ok THEN Out(b.vm, ra.err)
      ELSE IF ~rb.ok THEN Out(b.vm, rb.err)
      ELSE Out(SetReg(b.vm, rb.reg, Reg(b.vm, ra.reg)), Ok)

cmovxx(v, region, env, cond) ==
  LET b == eat(v, region)
      ra == Register_try_from(b.val \div 16)
      rb == Register_try_from(b.val % 16)
  IN  IF ~b.ok THEN Out(b.vm, b.err)
      ELSE IF ~ra.ok THEN Out(b.vm, ra.err)
      ELSE IF ~rb.ok THEN Out(b.vm, rb.err)
      ELSE IF eval_condition(b.vm.reg_file.flags, cond)
           THEN Out(SetReg(b.vm, rb.reg, Reg(b.vm, ra.reg)), Ok)
           ELSE Out(b.vm, Ok)

\* irmovq that sets the zero and sign flags from the word it loads.
irmovq_sets_flags(v, region, env) ==
  LET b == eat(v, region)
      rb == Register_try_from(b.val % 16)
      val_c == eat_immediate(b.vm, region)
      flagged == [val_c.vm EXCEPT !.reg_file.flags.zf = (val_c.val = Zero),
                                  !.reg_file.flags.sf = IsNeg(val_c.val)]
  IN  IF ~b.ok THEN Out(b.vm, b.err)
      ELSE IF ~rb.ok THEN Out(b.vm, rb.err)
      ELSE IF ~val_c.ok THEN Out(val_c.vm, val_c.err)
      ELSE Out(SetReg(flagged, rb.reg, val_c.val), Ok)

irmovq(v, region, env) ==
  LET b == eat(v, region)
      rb == Register_try_from(b.val % 16)
      c == eat_immediate(b.vm, region)
  IN  IF ~b.ok THEN Out(b.vm, b.err)
      ELSE IF ~rb.ok THEN Out(b.vm, rb.err)
      ELSE IF ~c.ok THEN Out(c.vm, c.err)
      ELSE Out(SetReg(c.vm, rb.reg, c.val), Ok)

rmmovq(v, region, env) ==
  LET b == eat(v, region)
      ra == Register_try_from(b.val \div 16)
      rb == Register_try_from(b.val % 16)
      c == eat_immediate(b.vm, region)
      val_a == Reg(c.vm, ra.reg)
      val_b == Reg(c.vm, rb.reg)
      addr == overflowing_add(val_b, c.val)
      w == write_block(c.vm, addr[1], val_a, env)
  IN  IF ~b.ok THEN Out(b.vm, b.err)
      ELSE IF ~ra.ok THEN Out(b.vm, ra.err)
      ELSE IF ~rb.ok THEN Out(b.vm, rb.err)
      ELSE IF ~c.ok THEN Out(c.vm, c.err)
      ELSE IF Panics(addr, env) THEN Out(c.vm, Panic)
      ELSE IF w.res # Ok THEN Out(c.vm, w.res)
      ELSE Out(w.vm, Ok)

mrmovq(v, region, env) ==
  LET b == eat(v, region)
      ra == Register_try_from(b.val \div 16)
      rb == Register_try_from(b.val % 16)
      c == eat_immediate(b.vm, region)
      val_b == Reg(c.vm, rb.reg)
      addr == overflowing_add(val_b, c.val)
      val_m == read_block(c.vm, addr[1], env)
  IN  IF ~b.ok THEN Out(b.vm, b.err)
      ELSE IF ~ra.ok THEN Out(b.vm, ra.err)
      ELSE IF ~rb.ok THEN Out(b.vm, rb.err)
      ELSE IF ~c.ok THEN Out(c.vm, c.err)
      ELSE IF Panics(addr, env) THEN Out(c.vm, Panic)
      ELSE IF val_m.res # Ok THEN Out(c.vm, val_m.res)
      ELSE Out(SetReg(c.vm, ra.reg, val_m.val), Ok)

\* The match of opq: <<result, of>>, for Div and Mod with val_a # 0 and no
\* overflow of the division.
Compute(fun, val_b, val_a) ==
  CASE fun = "Add" -> overflowing_add(val_b, val_a)
    [] fun = "Sub" -> overflowing_sub(val_b, val_a)
    [] fun = "And" -> <<BitAnd(val_b, val_a), FALSE>>
    [] fun = "Xor" -> <<BitXor(val_b, val_a), FALSE>>
    [] fun = "Mul" -> overflowing_mul(val_b, val_a)
    [] fun = "Div" -> <<SignedDiv(val_b, val_a), FALSE>>
    [] fun = "Mod" -> <<SignedRem(val_b, val_a), FALSE>>

\* The writes with the sign flag set for a zero result too.
SetResult_sign_of_zero(v, rb, result, of) ==
  [v EXCEPT !.reg_file.registers[rb] = result,
            !.reg_file.flags = [zf |-> result = Zero, sf |-> IsNeg(result) \/ result = Zero,
                                of |-> of]]

\* The writes that end opq: the destination register and the three flags.
SetResult(v, rb, result, of) ==
  [v EXCEPT !.reg_file.registers[rb] = result,
            !.reg_file.flags = [zf |-> result = Zero, sf |-> IsNeg(result), of |-> of]]

\* opq with the flags cleared before the divisor is checked.
opq_clears_flags_first(v, region, env, fun) ==
  LET b == eat(v, region)
      ra == Register_try_from(b.val \div 16)
      rb == Register_try_from(b.val % 16)
      val_a == Reg(b.vm, ra.reg)
      val_b == Reg(b.vm, rb.reg)
      cleared == [b.vm EXCEPT !.reg_file.flags = Flags_new]
  IN  IF ~b.ok THEN Out(b.vm, b.err)
      ELSE IF ~ra.ok THEN Out(b.vm, ra.err)
      ELSE IF ~rb.ok THEN Out(b.vm, rb.err)
      ELSE IF fun \in {"Div", "Mod"} /\ val_a = Zero THEN Out(cleared, DivisionByZero)
      ELSE IF fun \in {"Div", "Mod"} /\ DivOverflows(val_b, val_a) THEN Out(b.vm, Panic)
      ELSE CHOOSE y \in {Out(SetResult(b.vm, rb.reg, r[1], r[2]), Ok) :
                         r \in {Compute(fun, val_b, val_a)}} : TRUE

opq(v, region, env, fun) ==
  LET b == eat(v, region)
      ra == Register_try_from(b.val \div 16)
      rb == Register_try_from(b.val % 16)
      val_a == Reg(b.vm, ra.reg)
      val_b == Reg(b.vm, rb.reg)
  IN  IF ~b.ok THEN Out(b.vm, b.err)
      ELSE IF ~ra.ok THEN Out(b.vm, ra.err)
      ELSE IF ~rb.ok THEN Out(b.vm, rb.err)
      ELSE IF fun \in {"Div", "Mod"} /\ val_a = Zero THEN Out(b.vm, DivisionByZero)
      ELSE IF fun \in {"Div", "Mod"} /\ DivOverflows(val_b, val_a) THEN Out(b.vm, Panic)
      ELSE CHOOSE y \in {Out(SetResult(b.vm, rb.reg, r[1], r[2]), Ok) :
                         r \in {Compute(fun, val_b, val_a)}} : TRUE

\* jxx that jumps whatever the flags are.
jxx_always(v, region, env, cond) ==
  LET dest == eat_immediate(v, region)
  IN  IF ~dest.ok THEN Out(dest.vm, dest.err)
      ELSE Out([dest.vm EXCEPT !.ip = dest.val], Ok)

jxx(v, region, env, cond) ==
  LET dest == eat_immediate(v, region)
  IN  IF ~dest.ok THEN Out(dest.vm, dest.err)
      ELSE IF eval_condition(dest.vm.reg_file.flags, cond)
           THEN Out([dest.vm EXCEPT !.ip = dest.val], Ok)
           ELSE Out(dest.vm, Ok)

\* call with the stack pointer moved before the return address is written.
call_moves_rsp_first(v, region, env) ==
  LET dest == eat_immediate(v, region)
      val_p == dest.vm.ip
      val_rsp == Reg(dest.vm, Rsp)
      new_rsp == overflowing_sub(val_rsp, W(8))
      moved == SetReg(dest.vm, Rsp, new_rsp[1])
      w == write_block(moved, new_rsp[1], val_p, env)
  IN  IF ~dest.ok THEN Out(dest.vm, dest.err)
      ELSE IF Panics(new_rsp, env) THEN Out(dest.vm, Panic)
      ELSE IF w.res # Ok THEN Out(moved, w.res)
      ELSE Out([w.vm EXCEPT !.ip = dest.val], Ok)

call(v, region, env) ==
  LET dest == eat_immediate(v, region)
      val_p == dest.vm.ip
      val_rsp == Reg(dest.vm, Rsp)
      new_rsp == overflowing_sub(val_rsp, W(8))
      w == write_block(dest.vm, new_rsp[1], val_p, env)
  IN  IF ~dest.ok THEN Out(dest.vm, dest.err)
      ELSE IF Panics(new_rsp, env) THEN Out(dest.vm, Panic)
      ELSE IF w.res # Ok THEN Out(dest.vm, w.res)
      ELSE Out([SetReg(w.vm, Rsp, new_rsp[1]) EXCEPT !.ip = dest.val], Ok)

ret(v, region, env) ==
  LET val_rsp == Reg(v, Rsp)
      ret_addr == read_block(v, val_rsp, env)
      new_rsp == overflowing_add(val_rsp, W(8))
  IN  IF ret_addr.res # Ok THEN Out(v, ret_addr.res)
      ELSE IF Panics(new_rsp, env) THEN Out(v, Panic)
      ELSE Out([SetReg(v, Rsp, new_rsp[1]) EXCEPT !.ip = ret_addr.val], Ok)

\* pushq that writes at the stack pointer, not 8 below it.
pushq_writes_at_old_rsp(v, region, env) ==
  LET b == eat(v, region)
      ra == Register_try_from(b.val \div 16)
      val_a == Reg(b.vm, ra.reg)
      val_rsp == Reg(b.vm, Rsp)
      new_rsp == overflowing_sub(val_rsp, W(8))
      w == write_block(b.vm, val_rsp, val_a, env)
  IN  IF ~b.ok THEN Out(b.vm, b.err)
      ELSE IF ~ra.ok THEN Out(b.vm, ra.err)
      ELSE IF Panics(new_rsp, env) THEN Out(b.vm, Panic)
      ELSE IF w.res # Ok THEN Out(b.vm, w.res)
      ELSE Out(SetReg(w.vm, Rsp, new_rsp[1]), Ok)

pushq(v, region, env) ==
  LET b == eat(v, region)
      ra == Register_try_from(b.val \div 16)
      val_a == Reg(b.vm, ra.reg)
      val_rsp == Reg(b.vm, Rsp)
      new_rsp == overflowing_sub(val_rsp, W(8))
      w == write_block(b.vm, new_rsp[1], val_a, env)
  IN  IF ~b.ok THEN Out(b.vm, b.err)
      ELSE IF ~ra.ok THEN Out(b.vm, ra.err)
      ELSE IF Panics(new_rsp, env) THEN Out(b.vm, Panic)
      ELSE IF w.res # Ok THEN Out(b.vm, w.res)
      ELSE Out(SetReg(w.vm, Rsp, new_rsp[1]), Ok)

popq(v, region, env) ==
  LET b == eat(v, region)
      ra == Register_try_from(b.val \div 16)
      val_rsp == Reg(b.vm, Rsp)
      val_m == read_block(b.vm, val_rsp, env)
      new_rsp == overflowing_add(val_rsp, W(8))
  IN  IF ~b.ok THEN Out(b.vm, b.err)
      ELSE IF ~ra.ok THEN Out(b.vm, ra.err)
      ELSE IF val_m.res # Ok THEN Out(b.vm, val_m.res)
      ELSE IF Panics(new_rsp, env) THEN Out(b.vm, Panic)
      ELSE Out(SetReg(SetReg(b.vm, ra.reg, val_m.val), Rsp, new_rsp[1]), Ok)

\* The opcode Task::run decodes from the byte at the ip: its variant, or
\* "EndOfInstructions" / "InvalidOpcode" when there is none.
Fetched(v, region) ==
  LET b == eat(v, region)
      opcode == Opcode_try_from(b.val)
  IN  IF ~b.ok THEN "EndOfInstructions"
      ELSE IF ~opcode.ok THEN "InvalidOpcode"
      ELSE opcode.op

\* Task::run
run(v, region, env) ==
  LET b == eat(v, region)
      opcode == Opcode_try_from(b.val)
  IN  IF ~b.ok THEN Out(b.vm, b.err)
      ELSE IF ~opcode.ok THEN Out(b.vm, opcode.err)
      ELSE CASE opcode.op = "Halt" -> halt(b.vm, region, env)
             [] opcode.op = "Nop" -> nop(b.vm, region, env)
             [] opcode.op = "Rrmovq" -> rrmovq(b.vm, region, env)
             [] opcode.op = "Cmovxx" -> cmovxx(b.vm, region, env, opcode.fun)
             [] opcode.op = "Irmovq" -> irmovq(b.vm, region, env)
             [] opcode.op = "Rmmovq" -> rmmovq(b.vm, region, env)
             [] opcode.op = "Mrmovq" -> mrmovq(b.vm, region, env)
             [] opcode.op = "Opq" -> opq(b.vm, region, env, opcode.fun)
             [] opcode.op = "Jxx" -> jxx(b.vm, region, env, opcode.fun)
             [] opcode.op = "Call" -> call(b.vm, region, env)
             [] opcode.op = "Ret" -> ret(b.vm, region, env)
             [] opcode.op = "Pushq" -> pushq(b.vm, region, env)
             [] opcode.op = "Popq" -> popq(b.vm, region, env)

\* step without its check of the state.
step_unchecked(v, region, env) == run(v, region, env)

\* Vm::step
step(v, region, env) ==
  IF v.state = "Halted" THEN Out(v, MachineHalted)
  ELSE run(v, region, env)

---------------------------------------------------------------------------
(* Instruction streams                                                     *)

\* The encodings Opcode::try_from and the handlers decode: the lead byte
\* (opcode << 4) | function, the operand byte (reg_a << 4) | reg_b, and an
\* 8-byte little-endian immediate.
I_halt == <<0>>
I_nop == <<16>>
I_rrmovq(ra, rb) == <<32, 16 * ra + rb>>
I_cmovxx(f, ra, rb) == <<32 + f, 16 * ra + rb>>
I_irmovq(value, rb) == <<48, 240 + rb>> \o value
I_rmmovq(ra, rb, disp) == <<64, 16 * ra + rb>> \o disp
I_mrmovq(ra, rb, disp) == <<80, 16 * ra + rb>> \o disp
I_opq(f, ra, rb) == <<96 + f, 16 * ra + rb>>
I_jxx(f, dest) == <<112 + f>> \o dest
I_call(dest) == <<128>> \o dest
I_ret == <<144>>
I_pushq(ra) == <<160, 16 * ra + 15>>
I_popq(ra) == <<176, 16 * ra + 15>>

\* main.rs simple_add_program, byte for byte.
simple_add_program ==
  <<48, 247, 7, 0, 0, 0, 0, 0, 0, 0,
    48, 246, 5, 0, 0, 0, 0, 0, 0, 0,
    128, 32, 0, 0, 0, 0, 0, 0, 0,
    0,
    160, 95,
    32, 69,
    32, 112,
    96, 96,
    176, 95,
    144>>

Rcx == 1

\* Single instructions a client's stream is made of: every opcode family, with
\* operands that reach each way a handler ends.
Snippets ==
  { I_halt, I_nop,
    I_rrmovq(Rsp, Rcx), I_rrmovq(Rcx, 15), I_rrmovq(15, Rcx),
    I_cmovxx(3, Rsp, Rax), I_cmovxx(5, Rsp, Rax), I_cmovxx(7, Rsp, Rax),
    I_irmovq(Zero, Rsp), I_irmovq(W(8), Rsp), I_irmovq(W(MEMORY_SIZE), Rsp),
    I_irmovq(W(MEMORY_SIZE + 8), Rsp),
    I_irmovq(W(3), Rsp), I_irmovq(MAX, Rsp), I_irmovq(MIN, Rsp),
    I_irmovq(MinusOne, Rcx), I_irmovq(W(5), 15),
    I_rmmovq(Rsp, Rsp, Zero), I_rmmovq(Rsp, Rsp, W(1)), I_rmmovq(Rsp, Rsp, W(8)),
    I_rmmovq(Rsp, Rsp, MAX), I_rmmovq(15, Rsp, Zero),
    I_mrmovq(Rcx, Rsp, Zero), I_mrmovq(Rcx, Rsp, W(4)), I_mrmovq(Rcx, Rsp, W(16)),
    I_mrmovq(Rcx, Rsp, wrapping_neg(W(MEMORY_SIZE))), I_mrmovq(Rcx, 15, Zero),
    I_opq(0, Rsp, Rax), I_opq(1, Rsp, Rcx), I_opq(4, Rsp, Rsp), I_opq(5, Rcx, Rsp),
    I_opq(6, Rsp, Rcx), I_opq(5, Rsp, Rsp), I_opq(7, Rcx, Rcx), I_opq(0, 15, Rcx),
    I_jxx(3, W(1)), I_jxx(4, Zero), I_jxx(4, MinusOne), I_jxx(0, Zero),
    I_call(Zero), I_call(W(9)), I_ret,
    I_pushq(Rsp), I_pushq(15), I_popq(Rcx), I_popq(Rsp), I_popq(15),
    <<240>>, <<199>> }

\* The streams that stop short: every proper prefix of a snippet.
Truncated == UNION {{SubSeq(i, 1, k) : k \in 0..(Len(i) - 1)} : i \in Snippets}

\* Longer streams: a call with its return, nested calls, a routine that
\* overwrites its return address, one that leaves the stack unbalanced, one
\* that pushes and pops, and a call made with the stack pointer at 0.
P_call_ret == I_call(W(10)) \o I_halt \o I_ret

P_nested == I_call(W(10)) \o I_halt \o I_call(W(20)) \o I_ret \o I_ret

P_overwrite == I_call(W(10)) \o I_halt \o I_rmmovq(Rcx, Rsp, Zero) \o I_ret

P_unbalanced == I_call(W(10)) \o I_halt \o I_pushq(Rsp) \o I_ret

P_push_pop == I_call(W(10)) \o I_halt \o I_pushq(Rsp) \o I_popq(Rcx) \o I_ret

P_call_at_zero == I_irmovq(Zero, Rsp) \o I_call(W(20)) \o I_halt \o I_ret

P_div == I_irmovq(MIN, Rax) \o I_irmovq(MinusOne, Rcx) \o I_opq(5, Rcx, Rax)

Programs ==
  {simple_add_program, P_call_ret, P_nested, P_overwrite, P_unbalanced,
   P_push_pop, P_call_at_zero, P_div}
  \cup Truncated
  \cup {a \o b : a \in Snippets, b \in Snippets}

\* How an access outside the buffer can end: the process is killed, or the
\* access goes through, a read giving whatever lies there.
UBOutcomes ==
  {[crash |-> TRUE, val |-> Zero], [crash |-> FALSE, val |-> Zero],
   [crash |-> FALSE, val |-> MinusOne]}

\* The steps a client makes on one machine.
MaxSteps == 6

---------------------------------------------------------------------------
(* The state                                                               *)

VARIABLES
  ip,               \* Vm.ip
  memory,           \* Vm.memory (its bytes)
  reg_file,         \* Vm.reg_file
  state,            \* Vm.state
  result,           \* what the last call returned ("None": no call yet)
  last,             \* the last call: its operation and arguments
  region,           \* the instruction stream the caller holds
  overflow_checks,  \* whether the build checks arithmetic overflow (debug) or wraps
  caller,           \* "main" (bin/main.rs) or "client" (any user of the library)
  nsteps,           \* the calls made so far
  frames,           \* history: the calls not yet returned from, innermost last
  before            \* history: the machine as it was before the last step

vm_vars == <<ip, memory, reg_file, state>>

vars ==
  <<ip, memory, reg_file, state, result, last, region, overflow_checks, caller,
    nsteps, frames, before>>

\* The machine as the record the handlers take.
Vm == [ip |-> ip, memory |-> memory, reg_file |-> reg_file, state |-> state]

NoCall == [op |-> "None", a |-> Zero, w |-> Zero]

\* Vm::new(), built by main with simple_add_program or by a client with a
\* stream of its own, in a build with or without overflow checks.
Init ==
  /\ ip = Vm_new.ip
  /\ memory = Vm_new.memory
  /\ reg_file = Vm_new.reg_file
  /\ state = Vm_new.state
  /\ result = Res("None", Zero)
  /\ last = NoCall
  /\ caller \in {"main", "client"}
  /\ region \in IF caller = "main" THEN {simple_add_program} ELSE Programs
  /\ overflow_checks \in BOOLEAN
  /\ nsteps = 0
  /\ frames = <<>>
  /\ before = Vm

\* main's loop `while let Ok(()) = vm.step(&region) {}` goes on while step
\* returns Ok; a client may call again after an error, MaxSteps times in all.
\* Nothing runs after a panic or a crash.
CanStep ==
  /\ result.kind \notin {"Panic", "Crash"}
  /\ caller = "main" => result.kind \in {"None", "Ok"}
  /\ caller = "client" => nsteps < MaxSteps

\* What a step on machine v with the stream r does first: "Halted" for the
\* halted machine, or what it fetches.
Class(v, r) == IF v.state = "Halted" THEN "Halted" ELSE Fetched(v, r)

\* The word of the stack slot a frame's return address was written to stayed
\* as it was over this step. A slot outside the buffer (a call that went
\* through with the stack pointer at 0) counts as possibly overwritten by any
\* step that writes.
SlotKept(f, kind, mem2) ==
  IF InBuffer(f.slot)
  THEN LoadBlock(mem2, ToNat(f.slot)) = LoadBlock(memory, ToNat(f.slot))
  ELSE kind \notin {"Call", "Pushq", "Rmmovq"}

\* The history of calls after a step of the given kind that left out: a
\* successful call adds its frame (the offset after the call instruction, the
\* stack pointer before it, and the slot written), a successful ret drops the
\* innermost one.
NextFrames(kind, out) ==
  LET kept == [i \in 1..Len(frames) |->
                 [frames[i] EXCEPT !.intact = @ /\ SlotKept(frames[i], kind, out.vm.memory)]]
  IN  IF out.res # Ok THEN kept
      ELSE IF kind = "Call"
      THEN Append(kept, [after |-> wrapping_add(ip, W(9)), sp |-> Reg(Vm, Rsp),
                         slot |-> wrapping_sub(Reg(Vm, Rsp), W(8)), intact |-> TRUE])
      ELSE IF kind = "Ret" /\ kept # <<>> THEN SubSeq(kept, 1, Len(kept) - 1)
      ELSE kept

\* One call vm.step(&r) that does `kind` first.
Step(r, kind) ==
  /\ CanStep
  /\ Class(Vm, r) = kind
  /\ \E ub \in UBOutcomes :
       \E out \in {step(Vm, r, [checks |-> overflow_checks, ub |-> ub])} :
         /\ ip' = out.vm.ip
         /\ memory' = out.vm.memory
         /\ reg_file' = out.vm.reg_file
         /\ state' = out.vm.state
         /\ result' = out.res
         /\ last' = [op |-> kind, a |-> ip, w |-> Zero]
         /\ frames' = NextFrames(kind, out)
  /\ before' = Vm
  /\ nsteps' = nsteps + 1
  /\ UNCHANGED <<region, overflow_checks, caller>>

\* The streams a client passes to a halted machine: its own, or another one.
OtherStreams == {<<>>, I_halt, simple_add_program}

\* A halted machine is stepped.
StepHalted ==
  \E r \in {region} \cup OtherStreams : (caller = "client" \/ r = region) /\ Step(r, "Halted")

EndOfStream == Step(region, "EndOfInstructions")
BadOpcode == Step(region, "InvalidOpcode")
Halt == Step(region, "Halt")
Nop == Step(region, "Nop")
Rrmovq == Step(region, "Rrmovq")
Cmovxx == Step(region, "Cmovxx")
Irmovq == Step(region, "Irmovq")
Rmmovq == Step(region, "Rmmovq")
Mrmovq == Step(region, "Mrmovq")
Opq == Step(region, "Opq")
Jxx == Step(region, "Jxx")
Call == Step(region, "Call")
Ret == Step(region, "Ret")
Pushq == Step(region, "Pushq")
Popq == Step(region, "Popq")

Next ==
  \/ StepHalted
  \/ EndOfStream
  \/ BadOpcode
  \/ Halt
  \/ Nop
  \/ Rrmovq
  \/ Cmovxx
  \/ Irmovq
  \/ Rmmovq
  \/ Mrmovq
  \/ Opq
  \/ Jxx
  \/ Call
  \/ Ret
  \/ Pushq
  \/ Popq

Spec == Init /\ [][Next]_vars

---------------------------------------------------------------------------
(* The memory on its own: MainMemory::read and MainMemory::write called    *)
(* with any address.                                                       *)

\* 2^64 - 8, the address a stack pointer of 0 less 8 is truncated to.
TopOfUsize == wrapping_neg(W(BLOCK_SIZE))

Addresses ==
  {Zero, W(8), W(MEMORY_SIZE - 8), W(MEMORY_SIZE), W(4), W(MEMORY_SIZE - 7),
   W(MEMORY_SIZE + 1), TopOfUsize, MinusOne, MIN}

Pattern == <<1, 2, 3, 4, 5, 6, 7, 8>>

Values == {Zero, MinusOne, Pattern}

InitMem ==
  /\ ip = Vm_new.ip
  /\ memory = MainMemory_default
  /\ reg_file = Vm_new.reg_file
  /\ state = Vm_new.state
  /\ result = Res("None", Zero)
  /\ last = NoCall
  /\ caller = "client"
  /\ region = <<>>
  /\ overflow_checks \in BOOLEAN
  /\ nsteps = 0
  /\ frames = <<>>
  /\ before = Vm

\* memory.read(a): result holds the word read.
MemRead(a) ==
  /\ result.kind \notin {"Panic", "Crash"}
  /\ \E ub \in UBOutcomes :
       \E r \in {read(memory, a, [checks |-> overflow_checks, ub |-> ub])} :
         result' = IF r.res = Ok THEN Res("Ok", r.val) ELSE r.res
  /\ last' = [op |-> "read", a |-> a, w |-> Zero]
  /\ UNCHANGED <<ip, memory, reg_file, state, region, overflow_checks, caller, nsteps, frames,
               before>>

\* memory.write(a, w)
MemWrite(a, w) ==
  /\ result.kind \notin {"Panic", "Crash"}
  /\ \E ub \in UBOutcomes :
       \E r \in {write(memory, a, w, [checks |-> overflow_checks, ub |-> ub])} :
         /\ result' = r.res
         /\ memory' = r.bytes
  /\ last' = [op |-> "write", a |-> a, w |-> w]
  /\ UNCHANGED <<ip, reg_file, state, region, overflow_checks, caller, nsteps, frames,
               before>>

NextMem ==
  \/ \E a \in Addresses : MemRead(a)
  \/ \E a \in Addresses, w \in Values : MemWrite(a, w)

SpecMem == InitMem /\ [][NextMem]_vars

---------------------------------------------------------------------------
(* One arithmetic instruction on a machine in mid-run: the two registers    *)
(* hold any of the sample words and the flags are as an earlier arithmetic  *)
(* instruction can have left them (never zero and sign together).           *)

TwoTo32 == <<0, 0, 0, 0, 1, 0, 0, 0>>

Samples == {Zero, W(1), MinusOne, MIN, MAX, W(7), wrapping_neg(W(3)), TwoTo32}

ReachableFlags ==
  {f \in [zf : BOOLEAN, sf : BOOLEAN, of : BOOLEAN] : ~(f.zf /\ f.sf)}

\* Every arithmetic kind, with two registers and with one register twice.
OpStreams == {I_opq(f, Rcx, Rax) : f \in 0..6} \cup {I_opq(f, Rax, Rax) : f \in 0..6}

InitOp ==
  /\ ip = Zero
  /\ memory = MainMemory_default
  /\ \E a \in Samples, c \in Samples :
       /\ \E f \in ReachableFlags :
            reg_file = [registers |-> [Registers_new EXCEPT ![Rax] = a, ![Rcx] = c],
                        flags |-> f]
  /\ state = "Active"
  /\ result = Ok
  /\ last = NoCall
  /\ caller = "client"
  /\ region \in OpStreams
  /\ overflow_checks \in BOOLEAN
  /\ nsteps = 0
  /\ frames = <<>>
  /\ before = Vm

NextOp == Opq

SpecOp == InitOp /\ [][NextOp]_vars

---------------------------------------------------------------------------
(* Conditional jumps on a machine in mid-run: a jump alone, with the flags  *)
(* as an earlier arithmetic instruction can have left them, and a jump      *)
(* after a subtraction, with a copy of the minuend kept in rbp.            *)

JxxSamples == {Zero, W(1), MinusOne, MIN, MAX}

\* A target at the start of the stream, one past its end, and the top of usize.
JxxTargets == {Zero, W(40), MinusOne}

JxxStreams ==
  {I_jxx(f, t) : f \in 1..6, t \in JxxTargets}
  \cup {I_rrmovq(Rax, Rbp) \o I_opq(1, Rcx, Rax) \o I_jxx(f, t) : f \in 1..6, t \in JxxTargets}

InitJxx ==
  /\ ip = Zero
  /\ memory = MainMemory_default
  /\ \E a \in JxxSamples, c \in JxxSamples :
       /\ \E f \in ReachableFlags :
            reg_file = [registers |-> [Registers_new EXCEPT ![Rax] = a, ![Rcx] = c],
                        flags |-> f]
  /\ state = "Active"
  /\ result = Ok
  /\ last = NoCall
  /\ caller = "client"
  /\ region \in JxxStreams
  /\ overflow_checks \in BOOLEAN
  /\ nsteps = 0
  /\ frames = <<>>
  /\ before = Vm

NextJxx ==
  \/ Rrmovq
  \/ Opq
  \/ Jxx

SpecJxx == InitJxx /\ [][NextJxx]_vars

---------------------------------------------------------------------------
(* One instruction of any family, whole or cut short, on a machine whose    *)
(* flags are as an earlier arithmetic instruction can have left them.      *)

InitFlags ==
  /\ ip = Zero
  /\ memory = MainMemory_default
  /\ \E f \in ReachableFlags : reg_file = [registers |-> Registers_new, flags |-> f]
  /\ state = "Active"
  /\ result = Ok
  /\ last = NoCall
  /\ caller = "client"
  /\ region \in Snippets \cup Truncated
  /\ overflow_checks \in BOOLEAN
  /\ nsteps = 0
  /\ frames = <<>>
  /\ before = Vm

SpecFlags == InitFlags /\ [][Next]_vars

---------------------------------------------------------------------------
(* Flags::eval_condition on its own: a register file with any of the 8      *)
(* combinations of flags, asked any of the 6 predicates, time and again.   *)

\* JCmovFun
CondNames == {"LessEqual", "Less", "Equal", "NotEqual", "GreaterEqual", "Greater"}

InitCond ==
  /\ ip = Zero
  /\ memory = MainMemory_default
  /\ \E f \in [zf : BOOLEAN, sf : BOOLEAN, of : BOOLEAN] :
       reg_file = [registers |-> Registers_new, flags |-> f]
  /\ state = "Active"
  /\ result = Res("None", Zero)
  /\ last = NoCall
  /\ caller = "client"
  /\ region = <<>>
  /\ overflow_checks \in BOOLEAN
  /\ nsteps = 0
  /\ frames = <<>>
  /\ before = Vm

\* reg_file.eval_condition(&cond): result holds the boolean returned.
EvalCondition(cond) ==
  /\ nsteps < MaxSteps
  /\ result' = Res(IF eval_condition(reg_file.flags, cond) THEN "true" ELSE "false", Zero)
  /\ last' = [op |-> cond, a |-> Zero, w |-> Zero]
  /\ nsteps' = nsteps + 1
  /\ UNCHANGED <<ip, memory, reg_file, state, region, overflow_checks, caller, frames,
               before>>

NextCond == \E cond \in CondNames : EvalCondition(cond)

SpecCond == InitCond /\ [][NextCond]_vars

---------------------------------------------------------------------------
(* A push and then a pop on a machine in mid-run: the stack pointer at the  *)
(* bottom, inside or at the end of the memory, the memory empty or with     *)
(* words already stored at both ends.                                      *)

StackPointers == {W(8), W(16), W(MEMORY_SIZE - 8), W(MEMORY_SIZE)}

\* A memory with the words at 0, 8, 65520 and 65528 in use.
BusyMemory ==
  StoreBlock(StoreBlock(StoreBlock(StoreBlock(MainMemory_default, 0, Pattern), 8, MinusOne),
                        MEMORY_SIZE - 16, Pattern), MEMORY_SIZE - 8, MinusOne)

StackStreams ==
  {I_pushq(a) \o I_popq(b) : a \in {Rax, Rcx, Rsp}, b \in {Rax, Rcx, Rbp}}

InitStack ==
  /\ ip = Zero
  /\ memory \in {MainMemory_default, BusyMemory}
  /\ \E a \in Samples, sp \in StackPointers :
       reg_file = [registers |-> [Registers_new EXCEPT ![Rax] = a, ![Rcx] = W(7), ![Rsp] = sp],
                   flags |-> Flags_new]
  /\ state = "Active"
  /\ result = Ok
  /\ last = NoCall
  /\ caller = "client"
  /\ region \in StackStreams
  /\ overflow_checks \in BOOLEAN
  /\ nsteps = 0
  /\ frames = <<>>
  /\ before = Vm

NextStack ==
  \/ Pushq
  \/ Popq

SpecStack == InitStack /\ [][NextStack]_vars

---------------------------------------------------------------------------
(* Opcode::try_from on its own: any byte, decoded time and again.          *)

InitDecode ==
  /\ ip = Zero
  /\ memory = MainMemory_default
  /\ reg_file = RegisterFile_default
  /\ state = "Active"
  /\ result = Res("None", "")
  /\ last = NoCall
  /\ caller = "client"
  /\ \E byte \in 0..255 : region = <<byte>>
  /\ overflow_checks \in BOOLEAN
  /\ nsteps = 0
  /\ frames = <<>>
  /\ before = Vm

\* Opcode::try_from(region[0]): result holds the variant (its name and its
\* sub-code, "" when it has none) or the error.
Decode ==
  /\ nsteps < MaxSteps
  /\ \E d \in {Opcode_try_from(region[1])} :
       result' = IF d.ok THEN Res(d.op, d.fun) ELSE d.err
  /\ last' = [op |-> "try_from", a |-> W(region[1]), w |-> Zero]
  /\ nsteps' = nsteps + 1
  /\ UNCHANGED <<ip, memory, reg_file, state, region, overflow_checks, caller, frames,
               before>>

NextDecode == Decode

SpecDecode == InitDecode /\ [][NextDecode]_vars

---------------------------------------------------------------------------
(* Properties                                                              *)

\* The innermost call not yet returned from.
TopFrame == frames[Len(frames)]

\* C1: once the machine is Halted, every step (with any stream) returns
\* MachineHalted and leaves the ip, the registers, the flags, the memory and
\* the state as they were, so the machine stays Halted.
C1_HaltedStepChangesNothing ==
  [][state = "Halted" => (result' = MachineHalted /\ UNCHANGED vm_vars)]_vars

\* A halted machine that was stepped again, with a stream that holds bytes at
\* its ip.
C1_Witness ==
  /\ state = "Halted"
  /\ last.op = "Halted"
  /\ result = MachineHalted
  /\ nsteps >= 3

C2_CallRetPairingInBuffer ==
  [][(/\ last'.op = "Ret"
      /\ result' = Ok
      /\ frames # <<>>
      /\ TopFrame.intact
      /\ InBuffer(TopFrame.slot)
      /\ Reg(Vm, Rsp) = TopFrame.slot)
     => (ip' = TopFrame.after /\ reg_file'.registers[Rsp] = TopFrame.sp)]_vars

\* C3: main's run of simple_add_program, stepping until step returns an error,
\* ends with rax = 12 and the machine Halted.
C3_DemoEndsHaltedWithTwelve ==
  (caller = "main" /\ result.kind \in ErrorKinds)
    => (reg_file.registers[Rax] = W(12) /\ state = "Halted")

\* C4: a step that returns an error leaves the registers, the flags, the
\* memory and the Active/Halted state as they were.
C4_ErrorKeepsRegistersFlagsMemoryState ==
  [][(last'.op \notin {"read", "write"} /\ result'.kind \in ErrorKinds)
     => (reg_file' = reg_file /\ memory' = memory /\ state' = state)]_vars

\* A call whose write of the return address failed, made after another
\* instruction had changed the stack pointer.
C4_Witness ==
  /\ last.op = "Call"
  /\ result.kind = "InvalidAddress"
  /\ reg_file.registers[Rsp] = W(MEMORY_SIZE + 8)

\* C5: a step on an Active machine that returns an error leaves the ip as it was.
C5_ErrorKeepsIp ==
  [][(last'.op \notin {"read", "write"} /\ state = "Active" /\ result'.kind \in ErrorKinds)
     => ip' = ip]_vars

---------------------------------------------------------------------------
(* The arithmetic instruction a step ran, read off the stream at the ip     *)
(* before the step, and exact integer arithmetic on sign-extended 16-byte  *)
(* words to state what the truncated results are truncations of.           *)

\* The kind nibble, the source and the destination of the instruction at ip.
OpKind == region[ToNat(ip) + 1] % 16
OpSrc == region[ToNat(ip) + 2] \div 16
OpDst == region[ToNat(ip) + 2] % 16

Wide(w) ==
  w \o (IF w[BLOCK_SIZE] >= 128 THEN <<255, 255, 255, 255, 255, 255, 255, 255>>
        ELSE <<0, 0, 0, 0, 0, 0, 0, 0>>)

RECURSIVE WideAddFrom(_, _, _, _, _)
WideAddFrom(x, y, c, i, acc) ==
  IF i > Len(x) THEN acc
  ELSE CHOOSE r \in {WideAddFrom(x, y, t \div 256, i + 1, Append(acc, t % 256)) :
                       t \in {x[i] + y[i] + c}} : TRUE

WideAdd(x, y) == WideAddFrom(x, y, 0, 1, <<>>)

WideSub(x, y) == WideAddFrom(x, [i \in DOMAIN y |-> 255 - y[i]], 1, 1, <<>>)

RECURSIVE WideColumn(_, _, _, _)
WideColumn(x, y, k, i) ==
  IF i > k THEN 0 ELSE x[i] * y[k + 1 - i] + WideColumn(x, y, k, i + 1)

RECURSIVE WideMulFrom(_, _, _, _, _)
WideMulFrom(x, y, c, k, acc) ==
  IF k > Len(x) THEN acc
  ELSE CHOOSE r \in {WideMulFrom(x, y, t \div 256, k + 1, Append(acc, t % 256)) :
                       t \in {WideColumn(x, y, k, 1) + c}} : TRUE

\* The product modulo 2^128, which is exact for two sign-extended words.
WideMul(x, y) == WideMulFrom(x, y, 0, 1, <<>>)

\* The exact result is the sign extension of its low 8 bytes.
Fits(x) == x = Wide(SubSeq(x, 1, BLOCK_SIZE))

Exact(kind, b, a) ==
  CHOOSE r \in {CASE kind = 0 -> WideAdd(x[1], x[2])
                  [] kind = 1 -> WideSub(x[1], x[2])
                  [] kind = 4 -> WideMul(x[1], x[2]) : x \in {<<Wide(b), Wide(a)>>}} : TRUE

BitOf(byte, k) == (byte \div (2 ^ k)) % 2

\* C6: a Div or Mod whose source register holds 0 returns DivisionByZero and
\* leaves the destination register and the zero, sign and overflow flags as
\* they were, whatever the flags and the destination held.
C6_DivisionByZeroKeepsDestAndFlags ==
  [][(last'.op = "Opq" /\ OpKind \in {5, 6} /\ reg_file.registers[OpSrc] = Zero)
     => (/\ result' = DivisionByZero
         /\ reg_file'.registers[OpDst] = reg_file.registers[OpDst]
         /\ reg_file'.flags = reg_file.flags)]_vars

\* A division of the least word by a zero register, made with the zero and
\* overflow flags set.
C6_Witness ==
  /\ last.op = "Opq"
  /\ result = DivisionByZero
  /\ region = I_opq(5, Rcx, Rax)
  /\ reg_file.registers[Rcx] = Zero
  /\ reg_file.registers[Rax] = MIN
  /\ reg_file.flags = [zf |-> TRUE, sf |-> FALSE, of |-> TRUE]

\* C7: an Add, Sub, And, Xor or Mul step succeeds and stores in the
\* destination the exact result (dest op src) truncated to 8 bytes, sets zf
\* exactly when that word is 0, sf exactly when it is negative, and of exactly
\* when the exact Add/Sub/Mul result does not fit in a signed word (never for
\* And and Xor).
C7_ArithmeticFlagLaw ==
  [][(last'.op = "Opq" /\ OpKind \in 0..4)
     => LET b == reg_file.registers[OpDst]
            a == reg_file.registers[OpSrc]
            r == reg_file'.registers[OpDst]
            f == reg_file'.flags
        IN  /\ result' = Ok
            /\ f.zf = (r = Zero)
            /\ f.sf = (r[BLOCK_SIZE] >= 128)
            /\ OpKind \in {0, 1, 4} =>
                 \E x \in {Exact(OpKind, b, a)} :
                   /\ r = SubSeq(x, 1, BLOCK_SIZE)
                   /\ f.of = ~Fits(x)
            /\ OpKind = 2 =>
                 /\ \A i \in Idx, k \in 0..7 :
                      BitOf(r[i], k) = BitOf(b[i], k) * BitOf(a[i], k)
                 /\ ~f.of
            /\ OpKind = 3 =>
                 /\ \A i \in Idx, k \in 0..7 :
                      BitOf(r[i], k) = (BitOf(b[i], k) + BitOf(a[i], k)) % 2
                 /\ ~f.of]_vars

\* A multiplication of a register by itself whose exact result (2^126 or
\* 2^64) does not fit and truncates to 0: the zero and overflow flags are set.
C7_Witness ==
  /\ last.op = "Opq"
  /\ result = Ok
  /\ region = I_opq(4, Rax, Rax)
  /\ reg_file.registers[Rax] = Zero
  /\ reg_file.flags = [zf |-> TRUE, sf |-> FALSE, of |-> TRUE]

---------------------------------------------------------------------------
(* The memory's contract.                                                  *)

Aligned(a) == a[1] % BLOCK_SIZE = 0

\* a + 8 > 65536, as integers
PastEnd(a) == GtU(a, W(MEMORY_SIZE - BLOCK_SIZE))

\* C8: a read or write at an aligned address a with a + 8 > 65536 fails with
\* InvalidAddress(a) and leaves the memory as it was.
C8_PastEndIsInvalidAddress ==
  [][(last'.op \in {"read", "write"} /\ Aligned(last'.a) /\ PastEnd(last'.a))
     => (result' = InvalidAddress(last'.a) /\ memory' = memory)]_vars

\* C8 for the addresses a with a + 8 below 2^64.
C8_PastEndBelowTopIsInvalidAddress ==
  [][(/\ last'.op \in {"read", "write"}
      /\ Aligned(last'.a)
      /\ PastEnd(last'.a)
      /\ ~SpanOverflows(last'.a))
     => (result' = InvalidAddress(last'.a) /\ memory' = memory)]_vars

\* C9: a read or write at an address a that is not a multiple of 8 fails with
\* UnalignedAccess(a), inside the buffer and outside of it.
C9_UnalignedIsUnalignedAccess ==
  (last.op \in {"read", "write"} /\ ~Aligned(last.a)) => result = UnalignedAccess(last.a)

\* A write at an unaligned address past the end of the buffer, made after
\* writes had filled the buffer's last word.
C9_Witness ==
  /\ last.op = "write"
  /\ last.a = W(MEMORY_SIZE + 1)
  /\ result = UnalignedAccess(W(MEMORY_SIZE + 1))
  /\ LoadBlock(memory, MEMORY_SIZE - BLOCK_SIZE) = Pattern

\* C10: a write at an aligned address a with a + 8 <= 65536 succeeds, a read
\* of a then gives the word written, a read of any other aligned address in
\* the buffer gives what it gave before, and no byte outside a..a+7 changes.
C10_WriteReadRoundTrip ==
  [][(last'.op = "write" /\ Aligned(last'.a) /\ ~PastEnd(last'.a))
     => \A ub \in UBOutcomes :
          LET env == [checks |-> overflow_checks, ub |-> ub]
              base == ToNat(last'.a)
          IN  /\ result' = Ok
              /\ read(memory', last'.a, env) = [res |-> Ok, val |-> last'.w]
              /\ \A b \in Addresses :
                   (Aligned(b) /\ ~PastEnd(b) /\ b # last'.a)
                     => read(memory', b, env) = read(memory, b, env)
              /\ \A i \in (DOMAIN memory \cup DOMAIN memory')
                            \ (base..(base + BLOCK_SIZE - 1)) :
                   ByteAt(memory', i) = ByteAt(memory, i)]_vars

\* A read of the buffer's last word that gave the bytes 1..8 written there,
\* with another word of the buffer holding -1.
C10_Witness ==
  /\ last.op = "read"
  /\ last.a = W(MEMORY_SIZE - BLOCK_SIZE)
  /\ result = Res("Ok", Pattern)
  /\ LoadBlock(memory, BLOCK_SIZE) = MinusOne

---------------------------------------------------------------------------
(* The stack instructions.                                                 *)

\* The register named by the high nibble of the operand byte of the
\* instruction at ip.
OperandA == region[ToNat(ip) + 2] \div 16

\* C11: a pop that names the stack pointer as its destination, reading inside
\* the buffer, leaves in the stack pointer the word that was stored at the old
\* stack-pointer address.
C11_PopIntoRspGivesStoredWord ==
  [][(/\ last'.op = "Popq"
      /\ result' = Ok
      /\ OperandA = Rsp
      /\ InBuffer(Reg(Vm, Rsp)))
     => reg_file'.registers[Rsp] = LoadBlock(memory, ToNat(Reg(Vm, Rsp)))]_vars

---------------------------------------------------------------------------
(* Conditional jumps.                                                      *)

\* The predicates by their function nibble, as the instruction set names them.
PredName == <<"LessEqual", "Less", "Equal", "NotEqual", "GreaterEqual", "Greater">>

\* The function nibble and the target of the jump at ip.
JxxFun == region[ToNat(ip) + 1] % 16
JxxTarget == SubSeq(region, ToNat(ip) + 2, ToNat(ip) + 9)

\* The step before this one ran `subq %rcx, %rax` at offset 2, after the copy
\* of rax to rbp at offset 0.
AfterCopyAndSub ==
  /\ last.op = "Opq"
  /\ result = Ok
  /\ last.a = W(2)
  /\ SubSeq(region, 1, 4) = I_rrmovq(Rax, Rbp) \o I_opq(1, Rcx, Rax)

\* C12: a successful jump with lead byte at p leaves the ip at its target when
\* its predicate holds on the flags before the step and at p + 9 otherwise; a
\* Sub sets the zero flag exactly when its operands are equal, and a
\* jump-if-Equal right after a Sub is taken exactly when the Sub's operands
\* were equal.
C12_ConditionalJump ==
  [][/\ (last'.op = "Jxx" /\ result' = Ok)
          => ip' = IF eval_condition(reg_file.flags, PredName[JxxFun])
                   THEN JxxTarget ELSE wrapping_add(ip, W(9))
     /\ (last'.op = "Opq" /\ result' = Ok /\ OpKind = 1)
          => reg_file'.flags.zf = (reg_file.registers[OpDst] = reg_file.registers[OpSrc])
     /\ (last'.op = "Jxx" /\ result' = Ok /\ JxxFun = 3 /\ AfterCopyAndSub)
          => ((ip' = JxxTarget) <=> (reg_file.registers[Rbp] = reg_file.registers[Rcx]))]_vars

\* A jump-if-Equal taken to offset 40 after the least word was subtracted
\* from itself.
C12_Witness ==
  /\ last.op = "Jxx"
  /\ result = Ok
  /\ region = I_rrmovq(Rax, Rbp) \o I_opq(1, Rcx, Rax) \o I_jxx(3, W(40))
  /\ ip = W(40)
  /\ reg_file.registers[Rbp] = MIN
  /\ reg_file.registers[Rcx] = MIN
  /\ reg_file.registers[Rax] = Zero

---------------------------------------------------------------------------
(* The initial state and the flags.                                        *)

\* C13: a newly created machine has ip 0, the stack pointer at 65528, every
\* other register 0, the three flags false, every memory byte 0 and the
\* state Active.
C13_InitialState ==
  nsteps = 0 =>
    /\ ip = <<0, 0, 0, 0, 0, 0, 0, 0>>
    /\ DOMAIN reg_file.registers = 0..14
    /\ reg_file.registers[4] = <<248, 255, 0, 0, 0, 0, 0, 0>>
    /\ \A r \in (0..14) \ {4} : reg_file.registers[r] = <<0, 0, 0, 0, 0, 0, 0, 0>>
    /\ reg_file.flags = [zf |-> FALSE, sf |-> FALSE, of |-> FALSE]
    /\ \A i \in 0..(MEMORY_SIZE - 1) : ByteAt(memory, i) = 0
    /\ state = "Active"

\* The machine main has just created, before its first step.
C13_Witness ==
  /\ nsteps = 0
  /\ result.kind = "None"
  /\ caller = "main"
  /\ region = simple_add_program
  /\ LoadBlock(memory, MEMORY_SIZE - BLOCK_SIZE) = Zero

\* The instructions that are not arithmetic operations.
NotArithmetic ==
  {"Halt", "Nop", "Rrmovq", "Cmovxx", "Irmovq", "Rmmovq", "Mrmovq", "Jxx", "Call",
   "Ret", "Pushq", "Popq"}

\* C14: a step that executes an instruction other than an arithmetic
\* operation leaves the zero, sign and overflow flags as they were, whether it
\* succeeds or fails.
C14_FlagsFrame ==
  [][last'.op \in NotArithmetic => reg_file'.flags = reg_file.flags]_vars

\* A load of an immediate 0 that succeeded with the overflow flag set and the
\* zero flag clear.
C14_Witness ==
  /\ last.op = "Irmovq"
  /\ result = Ok
  /\ region = I_irmovq(Zero, Rsp)
  /\ reg_file.registers[Rsp] = Zero
  /\ reg_file.flags = [zf |-> FALSE, sf |-> FALSE, of |-> TRUE]

---------------------------------------------------------------------------
(* The predicates.                                                         *)

ExclusiveOr(a, b) == (a \/ b) /\ ~(a /\ b)

\* The table of the six predicates over the zero, sign and overflow flags.
Holds(cond, z, s, o) ==
  CASE cond = "LessEqual" -> ExclusiveOr(s, o) \/ z
    [] cond = "Less" -> ExclusiveOr(s, o)
    [] cond = "Equal" -> z
    [] cond = "NotEqual" -> ~z
    [] cond = "GreaterEqual" -> ~ExclusiveOr(s, o)
    [] cond = "Greater" -> ~ExclusiveOr(s, o) /\ ~z

\* C15: for each combination of the three flags eval_condition returns what
\* the table gives for the predicate asked, Greater is the negation of
\* LessEqual and GreaterEqual the negation of Less.
C15_ConditionTable ==
  last.op \in CondNames =>
    LET f == reg_file.flags
    IN  /\ result.kind = (IF Holds(last.op, f.zf, f.sf, f.of) THEN "true" ELSE "false")
        /\ eval_condition(f, "Greater") = ~eval_condition(f, "LessEqual")
        /\ eval_condition(f, "GreaterEqual") = ~eval_condition(f, "Less")

\* LessEqual asked and found true with the overflow flag alone set.
C15_Witness ==
  /\ last.op = "LessEqual"
  /\ result.kind = "true"
  /\ reg_file.flags = [zf |-> FALSE, sf |-> FALSE, of |-> TRUE]

---------------------------------------------------------------------------
(* The fetch.                                                              *)

\* The ip is at or past the end of the stream.
PastStream == ~IsSmall(ip) \/ ToNat(ip) >= Len(region)

\* C16: a step on an Active machine whose ip is at or past the end of the
\* stream returns EndOfInstructions with that ip and changes nothing, so the
\* next step with the same stream finds the same state and does the same.
C16_EndOfInstructionsChangesNothing ==
  [][(state = "Active" /\ PastStream /\ nsteps' # nsteps)
     => (result' = EndOfInstructions(ip) /\ UNCHANGED vm_vars)]_vars

\* The third step in a row to return EndOfInstructions(2), after the two
\* nops that were the whole stream.
C16_Witness ==
  /\ region = I_nop \o I_nop
  /\ nsteps >= 5
  /\ state = "Active"
  /\ ip = W(2)
  /\ last.op = "EndOfInstructions"
  /\ result = EndOfInstructions(W(2))

\* C17: a step whose lead byte the opcode decoder rejects returns
\* InvalidOpcode carrying the lead byte.
C17_InvalidOpcodeCarriesLeadByte ==
  [][(state = "Active" /\ ~PastStream /\ result'.kind = "InvalidOpcode")
     => result'.arg = W(region[ToNat(ip) + 1])]_vars

\* C17 for the lead bytes whose high nibble is outside the opcode families.
C17_UnknownFamilyCarriesLeadByte ==
  [][(/\ state = "Active"
      /\ ~PastStream
      /\ result'.kind = "InvalidOpcode"
      /\ region[ToNat(ip) + 1] \div 16 > 11)
     => result'.arg = W(region[ToNat(ip) + 1])]_vars

---------------------------------------------------------------------------
(* Division.                                                               *)

\* q and r are the quotient and the remainder of b by a, truncated toward
\* zero: b = q * a + r exactly, |r| < |a|, and r is 0 or has the sign of b.
IsQuotientAndRemainder(b, a, q, r) ==
  /\ Wide(b) = WideAdd(WideMul(Wide(q), Wide(a)), Wide(r))
  /\ GtU(Magnitude(a), Magnitude(r))
  /\ r = Zero \/ IsNeg(r) = IsNeg(b)

\* What a successful Div or Mod step on b (dest) and a (src) must leave.
DivModDone(b, a) ==
  LET d == reg_file'.registers[OpDst]
      f == reg_file'.flags
  IN  /\ result' = Ok
      /\ IF OpKind = 5 THEN IsQuotientAndRemainder(b, a, d, SignedRem(b, a))
         ELSE IsQuotientAndRemainder(b, a, SignedDiv(b, a), d)
      /\ f = [zf |-> d = Zero, sf |-> d[BLOCK_SIZE] >= 128, of |-> FALSE]

\* C18: a Div or Mod whose source register is not 0 succeeds, whatever the
\* destination holds: dest receives the quotient (the remainder), the
\* overflow flag is false and the zero and sign flags reflect the result.
C18_DivModSucceeds ==
  [][(last'.op = "Opq" /\ OpKind \in {5, 6} /\ reg_file.registers[OpSrc] # Zero)
     => DivModDone(reg_file.registers[OpDst], reg_file.registers[OpSrc])]_vars

\* C18 for every pair but the least word divided by -1.
C18_DivModSucceedsButLeastByMinusOne ==
  [][(/\ last'.op = "Opq"
      /\ OpKind \in {5, 6}
      /\ reg_file.registers[OpSrc] # Zero
      /\ ~(reg_file.registers[OpDst] = MIN /\ reg_file.registers[OpSrc] = MinusOne))
     => DivModDone(reg_file.registers[OpDst], reg_file.registers[OpSrc])]_vars

---------------------------------------------------------------------------
(* Push and pop.                                                           *)

\* The stack pointer of machine v is a multiple of 8 from 8 to 65536.
StackPointerInRange(v) ==
  LET sp == v.reg_file.registers[Rsp]
  IN  /\ IsSmall(sp)
      /\ ToNat(sp) % 8 = 0
      /\ 8 <= ToNat(sp)
      /\ ToNat(sp) <= 65536

\* The register the push at offset last.a named.
PushedRegister == region[ToNat(last.a) + 2] \div 16

\* C19: a push of register A made with the stack pointer aligned and from 8
\* to 65536, and then a pop into a register B other than the stack pointer,
\* both succeed, leave in B the value A held before the push (the stack
\* pointer before its decrement, for A the stack pointer), restore the stack
\* pointer to its value before the push, and change no byte of the memory
\* outside the word at that stack pointer less 8.
C19_PushPopRoundTrip ==
  [][(/\ last.op = "Pushq"
      /\ last'.op = "Popq"
      /\ StackPointerInRange(before)
      /\ OperandA # Rsp)
     => LET slot == ToNat(before.reg_file.registers[Rsp]) - 8
        IN  /\ result = Ok
            /\ result' = Ok
            /\ reg_file'.registers[OperandA] = before.reg_file.registers[PushedRegister]
            /\ reg_file'.registers[Rsp] = before.reg_file.registers[Rsp]
            /\ \A i \in (DOMAIN memory' \cup DOMAIN before.memory) \ (slot..(slot + 7)) :
                 ByteAt(memory', i) = ByteAt(before.memory, i)]_vars

\* The stack pointer pushed at the end of the memory and popped into rbp, the
\* words stored before at both ends of the memory still there but for the one
\* overwritten.
C19_Witness ==
  /\ last.op = "Popq"
  /\ result = Ok
  /\ region = I_pushq(Rsp) \o I_popq(Rbp)
  /\ reg_file.registers[Rbp] = W(MEMORY_SIZE)
  /\ reg_file.registers[Rsp] = W(MEMORY_SIZE)
  /\ LoadBlock(memory, MEMORY_SIZE - 8) = W(MEMORY_SIZE)
  /\ LoadBlock(memory, MEMORY_SIZE - 16) = Pattern

---------------------------------------------------------------------------
(* The opcode decoder.                                                     *)

\* The families by their high nibble 0x0..0xB (0x2 with low nibble 0).
FamilyName ==
  <<"Halt", "Nop", "Rrmovq", "Irmovq", "Rmmovq", "Mrmovq", "Opq", "Jxx", "Call", "Ret",
    "Pushq", "Popq">>

\* The arithmetic kinds by their low nibble 0..6.
KindName == <<"Add", "Sub", "And", "Xor", "Mul", "Div", "Mod">>

\* The lead bytes the instruction set defines, by high nibble h and low nibble l.
Defined(h, l) ==
  /\ h \in 0..11
  /\ h = 2 => l \in 0..6
  /\ h = 6 => l \in 0..6
  /\ h = 7 => l \in 1..6

\* C20: the decoder accepts a lead byte exactly when its high nibble is in
\* 0x0..0xB and, for moves, its low nibble is 0 or 1..6, for arithmetic 0..6,
\* for jumps 1..6; the variant is the family of the high nibble with the
\* predicate or kind of the low nibble, the low nibble of the other families
\* is ignored, and what a byte decodes to depends on the byte alone.
C20_DecodeAcceptsDefinedBytes ==
  last.op = "try_from" =>
    LET h == ToNat(last.a) \div 16
        l == ToNat(last.a) % 16
    IN  /\ last.a = W(region[1])
        /\ (result.kind # "InvalidOpcode") = Defined(h, l)
        /\ Defined(h, l) =>
             /\ result.kind = (IF h = 2 /\ l # 0 THEN "Cmovxx" ELSE FamilyName[h + 1])
             /\ result.arg = (CASE h = 6 -> KindName[l + 1]
                                [] h = 7 \/ (h = 2 /\ l # 0) -> PredName[l]
                                [] OTHER -> "")

\* The byte 0x9F decoded a second time to Return, its low nibble ignored.
C20_Witness ==
  /\ last.op = "try_from"
  /\ region = <<159>>
  /\ nsteps >= 2
  /\ result.kind = "Ret"

====
